---- MODULE Spec2Model ----
(***************************************************************************)
(* Model of the AskUserQuestion rendezvous of src/server/mcp/              *)
(* askUserQuestion.ts: the pending-question table, the single global       *)
(* notification callback, the tool handler with its Promise.race against   *)
(* a timer, and the external answerQuestion / cancelQuestion operations.   *)
(*                                                                         *)
(* JavaScript runs each synchronous stretch of code to completion, so the  *)
(* handler up to its `await` is one action, the continuation after the     *)
(* `await` is another, and every exported function is one action.          *)
(*                                                                         *)
(* The second part models the QuestionModal component (the question        *)
(* wizard): its three pieces of React state and its event handlers.        *)
(***************************************************************************)
EXTENDS Naturals, Integers, Sequences, FiniteSets, TLC

\* ---- bounds of the model -------------------------------------------------
MaxCalls == 2
\* calls made under the specification with fairness
MaxLiveCalls == 1

\* ---- input domains -------------------------------------------------------
Calls == 1..MaxCalls
\* tool ids handed to answerQuestion / cancelQuestion; 0 is never minted
UnknownId == 0
ToolIds == 0..MaxCalls
Sessions == {"sA", "sB"}
\* the question batch each session's agent asks
BatchOf(s) == IF s = "sA" THEN "batchA" ELSE "batchB"
\* answers: Record<string,string>, as its insertion-ordered entries
AnswerSets == { << <<"Lang", "A">> >>,
                << <<"Lang", "B">>, <<"Tools", "X, Y">> >> }
\* what the registered callback does while it runs: hand the question on,
\* or call back into answerQuestion / cancelQuestion before it returns
HookBehaviours == {"send", "answerInside", "cancelInside"}

NoCallback == "null"
Absent == 0

\* ---- values --------------------------------------------------------------
Pending == [state |-> "pending"]
Resolved(a) == [state |-> "resolved", answers |-> a]
Rejected(m) == [state |-> "rejected", message |-> m]

CancelledMsg == "Question cancelled by user"
TimeoutMsg == "Question timed out waiting for user response"
NoCallbackText == "Error: Question callback not configured"

NoResult == [kind |-> "none"]
NoRet == "none"
\* a boolean return value as recorded in `ret`
RetOf(b) == IF b THEN "true" ELSE "false"

VARIABLES
  globalQuestionCallback,  \* NoCallback or the session whose callback is set
  pendingQuestions,        \* tool id -> call owning {resolve, reject}, or Absent
  timers,                  \* calls whose setTimeout is scheduled and has not fired
  pc,                      \* per call: "idle", "awaiting", "done"
  args,                    \* per call: toolId, sessionId, questions
  race,                    \* per call: state of the Promise.race promise
  result,                  \* per call: value returned by the handler
  notifications,           \* log of callback invocations
  timersScheduled,         \* per call: number of setTimeout calls made
  ret,                     \* last return value of answerQuestion / cancelQuestion
  settledBy,               \* per tool id: operations that had an effect on it
  callbackSetBy,           \* sessions that have called setQuestionCallback
  lastHook,                \* whose callback the latest notification went to
  props,                   \* QuestionModal props: toolId and questions, or NoModal
  currentStep,             \* useState(0)
  answers,                 \* per step: the selected labels, in array order
  otherInputs,             \* per step: the "Other" text
  forwarded,               \* the onSubmit / onCancel call the modal has made
  lastEvent                \* the handler that ran last and what it found

coordVars == <<globalQuestionCallback, pendingQuestions, timers, pc, args, race,
               result, notifications, timersScheduled, ret, settledBy,
               callbackSetBy, lastHook>>

modalVars == <<props, currentStep, answers, otherInputs, forwarded, lastEvent>>

vars == <<coordVars, modalVars>>

\* ---- promise and map primitives -----------------------------------------
\* a promise keeps its first settlement; later resolve/reject calls are no-ops
Settle(p, v) == IF p.state = "pending" THEN v ELSE p

\* Map.delete
MapDelete(m, k) == [m EXCEPT ![k] = Absent]

\* Map.set
MapSet(m, k, v) == [m EXCEPT ![k] = v]

\* race promise of every call after the owner `c` (or nobody) is settled with v
SettleOwner(r, c, v) ==
  IF c = Absent THEN r ELSE [r EXCEPT ![c] = Settle(@, v)]

\* an operation on tool id `id` named `op` had an observable effect if it
\* changed the table or settled a race
Effect(pq2, race2) == pq2 # pendingQuestions \/ race2 # race

Log(id, op, pq2, race2, returned) ==
  IF Effect(pq2, race2) \/ returned
  THEN [settledBy EXCEPT ![id] = Append(@, op)]
  ELSE settledBy

\* ---- formatting ----------------------------------------------------------
RECURSIVE JoinLines(_)
JoinLines(lines) ==
  IF Len(lines) = 0 THEN ""
  ELSE IF Len(lines) = 1 THEN lines[1]
  ELSE lines[1] \o "\n" \o JoinLines(Tail(lines))

FormatAnswers(a) ==
  JoinLines([i \in 1..Len(a) |-> a[i][1] \o ": " \o a[i][2]])

SuccessResult(a) ==
  [kind |-> "ok", isError |-> FALSE,
   text |-> "User's answers:\n" \o FormatAnswers(a)]

ErrorResult(m) ==
  [kind |-> "error", isError |-> TRUE, text |-> "Error: " \o m]

\* ---- initial state -------------------------------------------------------
CoordInit ==
  /\ globalQuestionCallback = NoCallback
  /\ pendingQuestions = [id \in ToolIds |-> Absent]
  /\ timers = {}
  /\ pc = [c \in Calls |-> "idle"]
  /\ args = [c \in Calls |-> [toolId |-> UnknownId, sessionId |-> "", questions |-> ""]]
  /\ race = [c \in Calls |-> Pending]
  /\ result = [c \in Calls |-> NoResult]
  /\ notifications = <<>>
  /\ timersScheduled = [c \in Calls |-> 0]
  /\ ret = NoRet
  /\ settledBy = [id \in ToolIds |-> <<>>]
  /\ callbackSetBy = {}
  /\ lastHook = NoCallback

\* no QuestionModal is mounted
NoModal == [toolId |-> UnknownId, questions |-> ""]
NothingForwarded == [kind |-> "none"]
NoEvent == [handler |-> "none", arg |-> "", step |-> 0, before |-> <<>>,
            text |-> <<>>]

ModalInit ==
  /\ props = NoModal
  /\ currentStep = 0
  /\ answers = <<>>
  /\ otherInputs = <<>>
  /\ forwarded = NothingForwarded
  /\ lastEvent = NoEvent

\* ---- setQuestionCallback -------------------------------------------------
setQuestionCallback(s) ==
  /\ globalQuestionCallback' = s
  /\ callbackSetBy' = callbackSetBy \cup {s}
  /\ UNCHANGED <<pendingQuestions, timers, pc, args, race, result,
                 notifications, timersScheduled, ret, settledBy, lastHook>>

\* ---- answerQuestion ------------------------------------------------------
\* answerQuestion without its pendingQuestions.delete
AnswerTableKeep(pq, id) == pq
AnswerTable(pq, id) == IF pq[id] # Absent THEN MapDelete(pq, id) ELSE pq
AnswerRace(pq, r, id, a) == SettleOwner(r, pq[id], Resolved(a))
\* answerQuestion returning true on every path
AnswerReturnAlways(pq, id) == TRUE
AnswerReturn(pq, id) == pq[id] # Absent

answerQuestion(id, a) ==
  LET pq2 == AnswerTable(pendingQuestions, id)
      race2 == AnswerRace(pendingQuestions, race, id, a)
      returned == AnswerReturn(pendingQuestions, id)
  IN /\ UNCHANGED <<globalQuestionCallback, timers, pc, args, result,
                    notifications, timersScheduled, callbackSetBy, lastHook>>
     /\ pendingQuestions' = pq2
     /\ race' = race2
     /\ ret' = RetOf(returned)
     /\ settledBy' = Log(id, "answer", pq2, race2, returned)

\* ---- cancelQuestion ------------------------------------------------------
\* cancelQuestion without its pendingQuestions.delete
CancelTableKeep(pq, id) == pq
\* cancelQuestion clearing the whole table instead of one key
CancelTableClear(pq, id) ==
  IF pq[id] # Absent THEN [k \in DOMAIN pq |-> Absent] ELSE pq
CancelTable(pq, id) == IF pq[id] # Absent THEN MapDelete(pq, id) ELSE pq
CancelRace(pq, r, id) == SettleOwner(r, pq[id], Rejected(CancelledMsg))
CancelReturn(pq, id) == pq[id] # Absent

cancelQuestion(id) ==
  LET pq2 == CancelTable(pendingQuestions, id)
      race2 == CancelRace(pendingQuestions, race, id)
      returned == CancelReturn(pendingQuestions, id)
  IN /\ UNCHANGED <<globalQuestionCallback, timers, pc, args, result,
                    notifications, timersScheduled, callbackSetBy, lastHook>>
     /\ pendingQuestions' = pq2
     /\ race' = race2
     /\ ret' = RetOf(returned)
     /\ settledBy' = Log(id, "cancel", pq2, race2, returned)

\* ---- the AskUserQuestion tool handler, up to its await -------------------
\* the callback invocation of line 108, as the record the callback receives
Notification(toolId, questions, sessionId) ==
  [toolId |-> toolId, questions |-> questions, sessionId |-> sessionId,
   registered |-> pendingQuestions[toolId] # Absent]

\* the callback that line 108 runs
InvokedHook(cb) == cb

\* the notifications made by one run of the handler
\* a handler that invokes the callback twice
HandlerNotifyTwice(log, n) == Append(Append(log, n), n)
HandlerNotify(log, n) == Append(log, n)

\* first executor of Promise.race: pendingQuestions.set(toolId, {resolve, reject})
HandlerRegister(pq, toolId, c) == MapSet(pq, toolId, c)

\* second executor of Promise.race: setTimeout(..., timeout)
HandlerArm(t, c) == t \cup {c}

\* table, race promises and return value of a call made by the callback
\* while it runs (before the handler has reached Promise.race)
HookTable(hb, id) ==
  CASE hb = "answerInside" -> AnswerTable(pendingQuestions, id)
    [] hb = "cancelInside" -> CancelTable(pendingQuestions, id)
    [] OTHER -> pendingQuestions

HookRace(hb, id, a) ==
  CASE hb = "answerInside" -> AnswerRace(pendingQuestions, race, id, a)
    [] hb = "cancelInside" -> CancelRace(pendingQuestions, race, id)
    [] OTHER -> race

HookReturn(hb, id) ==
  CASE hb = "answerInside" -> RetOf(AnswerReturn(pendingQuestions, id))
    [] hb = "cancelInside" -> RetOf(CancelReturn(pendingQuestions, id))
    [] OTHER -> ret

\* the answers a callback of behaviour hb passes to answerQuestion
HookAnswers(hb) ==
  IF hb = "answerInside" THEN AnswerSets ELSE {<< <<"Lang", "A">> >>}

HookOp(hb) == IF hb = "answerInside" THEN "answer" ELSE "cancel"

\* `if (globalQuestionCallback)` of line 107
\* a handler that does not test the callback
HasCallbackAlways(cb) == TRUE
HasCallback(cb) == cb # NoCallback

\* the result returned at lines 111-114
NoCallbackResult ==
  [kind |-> "error", isError |-> TRUE, text |-> NoCallbackText]

AskUserQuestion(c, toolId, sessionId, questions, hb, a) ==
  /\ pc[c] = "idle"
  /\ \A d \in Calls : d < c => pc[d] # "idle"
  /\ args' = [args EXCEPT ![c] = [toolId |-> toolId, sessionId |-> sessionId,
                                  questions |-> questions]]
  /\ IF ~HasCallback(globalQuestionCallback)
     THEN /\ result' = [result EXCEPT ![c] = NoCallbackResult]
          /\ pc' = [pc EXCEPT ![c] = "done"]
          /\ UNCHANGED <<globalQuestionCallback, pendingQuestions, timers, race,
                         notifications, timersScheduled, ret, settledBy,
                         callbackSetBy, lastHook>>
     ELSE LET pq1 == HookTable(hb, toolId)
              race1 == HookRace(hb, toolId, a)
          IN /\ notifications' =
                  HandlerNotify(notifications, Notification(toolId, questions, sessionId))
             /\ lastHook' = InvokedHook(globalQuestionCallback)
             /\ ret' = HookReturn(hb, toolId)
             /\ settledBy' = IF hb = "send" THEN settledBy
                             ELSE Log(toolId, HookOp(hb), pq1, race1,
                                      HookReturn(hb, toolId) = "true")
             /\ race' = race1
             /\ pendingQuestions' = HandlerRegister(pq1, toolId, c)
             /\ timers' = HandlerArm(timers, c)
             /\ timersScheduled' = [timersScheduled EXCEPT ![c] = @ + 1]
             /\ pc' = [pc EXCEPT ![c] = "awaiting"]
             /\ UNCHANGED <<globalQuestionCallback, result, callbackSetBy>>

\* ---- the setTimeout callback of lines 126-129 ----------------------------
\* a timer callback without its pendingQuestions.delete
TimerTableKeep(pq, id) == pq
TimerTable(pq, id) == MapDelete(pq, id)
\* a timer callback that forgets to reject
TimerRaceNoReject(r, c) == r
TimerRace(r, c) == [r EXCEPT ![c] = Settle(@, Rejected(TimeoutMsg))]

TimerFire(c) ==
  LET id == args[c].toolId
      pq2 == TimerTable(pendingQuestions, id)
      race2 == TimerRace(race, c)
  IN /\ c \in timers
     /\ timers' = timers \ {c}
     /\ pendingQuestions' = pq2
     /\ race' = race2
     /\ settledBy' = Log(id, "timeout", pq2, race2, FALSE)
     /\ UNCHANGED <<globalQuestionCallback, pc, args, result, notifications,
                    timersScheduled, ret, callbackSetBy, lastHook>>

\* ---- the handler's continuation after the await --------------------------
\* try branch (lines 133-147) or catch branch (lines 148-164)
\* a handler whose await is not wrapped in try / catch
ResumeResultNoCatch(p) ==
  IF p.state = "resolved" THEN SuccessResult(p.answers)
  ELSE [kind |-> "thrown", isError |-> TRUE, text |-> p.message]

ResumeResult(p) ==
  IF p.state = "resolved" THEN SuccessResult(p.answers)
  ELSE ErrorResult(p.message)

ResumeTable(pq, p, id) ==
  IF p.state = "rejected" THEN MapDelete(pq, id) ELSE pq

Resume(c) ==
  /\ pc[c] = "awaiting"
  /\ race[c].state # "pending"
  /\ result' = [result EXCEPT ![c] = ResumeResult(race[c])]
  /\ pendingQuestions' = ResumeTable(pendingQuestions, race[c], args[c].toolId)
  /\ pc' = [pc EXCEPT ![c] = "done"]
  /\ UNCHANGED <<globalQuestionCallback, timers, args, race, notifications,
                 timersScheduled, ret, settledBy, callbackSetBy,
                 lastHook>>

\* ---- QuestionModal: domains ----------------------------------------------
\* the sentinel the component stores for the "Other" choice
Other == "__other__"

\* the Question[] behind each batch name
Questions(b) ==
  CASE b = "batchA" ->
         << [header |-> "Lang", multiSelect |-> FALSE, options |-> <<"A", "B">>],
            [header |-> "Tools", multiSelect |-> TRUE, options |-> <<"X", "Y">>] >>
    [] b = "batchB" ->
         << [header |-> "Tools", multiSelect |-> TRUE, options |-> <<"X", "Y">>] >>
    [] b = "batchD" ->
         << [header |-> "Lang", multiSelect |-> FALSE, options |-> <<"A">>],
            [header |-> "Tools", multiSelect |-> TRUE, options |-> <<"X", "Y">>],
            [header |-> "Env", multiSelect |-> FALSE, options |-> <<"B">>] >>
    [] b = "batchC" ->
         << [header |-> "Lang", multiSelect |-> FALSE, options |-> <<"A", "B">>],
            [header |-> "Lang", multiSelect |-> TRUE, options |-> <<"X", "Y">>] >>
    [] OTHER -> <<>>

Batches == {"batchA", "batchB"}

\* what the user can type into the "Other" input, as sequences of characters:
\* nothing, a blank, a plain word, a padded word
Texts == { <<>>, <<" ">>, <<"Z">>, <<" ", "x", " ">> }

Whitespace == {" "}

\* ---- QuestionModal: string and array functions ----------------------------
\* the string a character sequence stands for
RECURSIVE TextStr(_)
TextStr(t) == IF t = <<>> THEN "" ELSE t[1] \o TextStr(Tail(t))

RECURSIVE TrimStart(_)
TrimStart(t) ==
  IF t # <<>> /\ t[1] \in Whitespace THEN TrimStart(Tail(t)) ELSE t

RECURSIVE TrimEnd(_)
TrimEnd(t) ==
  IF t # <<>> /\ t[Len(t)] \in Whitespace
  THEN TrimEnd(SubSeq(t, 1, Len(t) - 1))
  ELSE t

\* String.prototype.trim
Trim(t) == TrimEnd(TrimStart(t))

\* Array.prototype.includes
Includes(arr, x) == \E i \in 1..Len(arr) : arr[i] = x

\* arr.filter(a => a !== x)
Without(arr, x) == SelectSeq(arr, LAMBDA a : a # x)

\* arr.filter(Boolean) on an array of strings: the empty string is falsy
FilterBooleanKeep(arr) == arr

FilterBoolean(arr) == SelectSeq(arr, LAMBDA a : a # "")

\* arr.join(', ')
RECURSIVE JoinComma(_)
JoinComma(arr) ==
  IF Len(arr) = 0 THEN ""
  ELSE IF Len(arr) = 1 THEN arr[1]
  ELSE arr[1] \o ", " \o JoinComma(Tail(arr))

\* an assignment that leaves a key already set alone
ObjectSetKeepFirst(obj, k, v) ==
  IF \E i \in 1..Len(obj) : obj[i][1] = k THEN obj ELSE Append(obj, <<k, v>>)

\* obj[k] = v on an insertion-ordered object: an existing key keeps its place
ObjectSet(obj, k, v) ==
  IF \E i \in 1..Len(obj) : obj[i][1] = k
  THEN [i \in 1..Len(obj) |-> IF obj[i][1] = k THEN <<k, v>> ELSE obj[i]]
  ELSE Append(obj, <<k, v>>)

\* ---- QuestionModal: derived values ---------------------------------------
\* the parent takes the modal down once it has been told the outcome
Mounted == props # NoModal /\ forwarded = NothingForwarded

questions == Questions(props.questions)
totalSteps == Len(questions)
\* steps are numbered from 0 as in the component; sequences start at 1
currentQuestion == questions[currentStep + 1]
isLastStepFirst == currentStep = 0

isLastStep == currentStep = Len(questions) - 1
isFirstStep == currentStep = 0

\* answers[step] || [] and otherInputs[step] || '': a step never touched
\* holds the empty array and the empty string
StepAnswers(idx) == answers[idx + 1]
StepOther(idx) == otherInputs[idx + 1]

isOptionSelected(optionLabel) == Includes(StepAnswers(currentStep), optionLabel)
isOtherSelected == Includes(StepAnswers(currentStep), Other)

CanProceedUntrimmed(currentAnswers, otherInput) ==
  IF Len(currentAnswers) = 0 THEN FALSE
  ELSE IF Includes(currentAnswers, Other) /\ otherInput = <<>> THEN FALSE
  ELSE TRUE

CanProceed(currentAnswers, otherInput) ==
  IF Len(currentAnswers) = 0 THEN FALSE
  ELSE IF Includes(currentAnswers, Other) /\ Trim(otherInput) = <<>> THEN FALSE
  ELSE TRUE

canProceed == CanProceed(StepAnswers(currentStep), StepOther(currentStep))

\* the record kept of a handler's invocation: the step it ran on and that
\* step's selection and text as it found them
Event(handler, arg) ==
  [handler |-> handler, arg |-> arg, step |-> currentStep,
   before |-> StepAnswers(currentStep), text |-> StepOther(currentStep)]

\* ---- QuestionModal: handleOptionSelect ------------------------------------
OptionSelectAnswersKeepOther(multiSelect, currentAnswers, optionLabel) ==
  IF multiSelect
  THEN IF Includes(currentAnswers, optionLabel)
       THEN Without(currentAnswers, optionLabel)
       ELSE Append(currentAnswers, optionLabel)
  ELSE <<optionLabel>>

\* the new answers[currentStep]
OptionSelectAnswers(multiSelect, currentAnswers, optionLabel) ==
  IF multiSelect
  THEN IF Includes(currentAnswers, optionLabel)
       THEN Without(currentAnswers, optionLabel)
       ELSE Append(Without(currentAnswers, Other), optionLabel)
  ELSE <<optionLabel>>

OptionSelectOtherKeep(multiSelect, otherInput) == otherInput

\* the new otherInputs[currentStep]
OptionSelectOther(multiSelect, otherInput) ==
  IF multiSelect THEN otherInput ELSE <<>>

handleOptionSelect(optionLabel) ==
  /\ Mounted
  /\ answers' = [answers EXCEPT ![currentStep + 1] =
                   OptionSelectAnswers(currentQuestion.multiSelect, @, optionLabel)]
  /\ otherInputs' = [otherInputs EXCEPT ![currentStep + 1] =
                       OptionSelectOther(currentQuestion.multiSelect, @)]
  /\ lastEvent' = Event("handleOptionSelect", optionLabel)
  /\ UNCHANGED <<props, currentStep, forwarded>>

\* ---- QuestionModal: handleOtherSelect -------------------------------------
OtherSelectAnswersFirst(multiSelect, currentAnswers) ==
  IF multiSelect
  THEN IF Includes(currentAnswers, Other)
       THEN Without(currentAnswers, Other)
       ELSE <<Other>> \o currentAnswers
  ELSE <<Other>>

OtherSelectAnswers(multiSelect, currentAnswers) ==
  IF multiSelect
  THEN IF Includes(currentAnswers, Other)
       THEN Without(currentAnswers, Other)
       ELSE Append(currentAnswers, Other)
  ELSE <<Other>>

handleOtherSelect ==
  /\ Mounted
  /\ answers' = [answers EXCEPT ![currentStep + 1] =
                   OtherSelectAnswers(currentQuestion.multiSelect, @)]
  /\ lastEvent' = Event("handleOtherSelect", "")
  /\ UNCHANGED <<props, currentStep, otherInputs, forwarded>>

\* ---- QuestionModal: handleOtherInputChange --------------------------------
\* a handler that writes the text of every step
handleOtherInputChangeAll(value) ==
  /\ Mounted
  /\ otherInputs' = [i \in DOMAIN otherInputs |-> value]
  /\ lastEvent' = Event("handleOtherInputChange", TextStr(value))
  /\ UNCHANGED <<props, currentStep, answers, forwarded>>

handleOtherInputChange(value) ==
  /\ Mounted
  /\ otherInputs' = [otherInputs EXCEPT ![currentStep + 1] = value]
  /\ lastEvent' = Event("handleOtherInputChange", TextStr(value))
  /\ UNCHANGED <<props, currentStep, answers, forwarded>>

\* ---- QuestionModal: handleNext --------------------------------------------
\* a map that trims the text it substitutes
MapOtherTrimmed(stepAnswers, otherInput) ==
  [i \in 1..Len(stepAnswers) |->
     IF stepAnswers[i] = Other THEN TextStr(Trim(otherInput)) ELSE stepAnswers[i]]

\* stepAnswers.map(a => a === '__other__' ? otherInputs[idx] || '' : a)
MapOther(stepAnswers, otherInput) ==
  [i \in 1..Len(stepAnswers) |->
     IF stepAnswers[i] = Other THEN TextStr(otherInput) ELSE stepAnswers[i]]

\* the value stored under a question's header
AnswerValue(stepAnswers, otherInput) ==
  JoinComma(FilterBoolean(MapOther(stepAnswers, otherInput)))

\* questions.forEach((q, idx) => finalAnswers[q.header] = ...), from idx on
RECURSIVE ForEachQuestion(_, _)
ForEachQuestion(idx, finalAnswers) ==
  IF idx >= Len(questions) THEN finalAnswers
  ELSE ForEachQuestion(idx + 1,
         ObjectSet(finalAnswers, questions[idx + 1].header,
                   AnswerValue(StepAnswers(idx), StepOther(idx))))

FinalAnswers == ForEachQuestion(0, <<>>)

onSubmit(id, a) == [kind |-> "submit", toolId |-> id, answers |-> a]
onCancel(id) == [kind |-> "cancel", toolId |-> id]

handleNext ==
  /\ Mounted
  /\ IF isLastStep
     THEN /\ forwarded' = onSubmit(props.toolId, FinalAnswers)
          /\ UNCHANGED currentStep
     ELSE /\ currentStep' = currentStep + 1
          /\ UNCHANGED forwarded
  /\ lastEvent' = Event("handleNext", "")
  /\ UNCHANGED <<props, answers, otherInputs>>

\* ---- QuestionModal: handleBack --------------------------------------------
handleBackReset ==
  /\ Mounted
  /\ IF ~isFirstStep
     THEN /\ currentStep' = currentStep - 1
          /\ answers' = [answers EXCEPT ![currentStep + 1] = <<>>]
          /\ otherInputs' = [otherInputs EXCEPT ![currentStep + 1] = <<>>]
     ELSE UNCHANGED <<currentStep, answers, otherInputs>>
  /\ lastEvent' = Event("handleBack", "")
  /\ UNCHANGED <<props, forwarded>>

handleBack ==
  /\ Mounted
  /\ IF ~isFirstStep
     THEN currentStep' = currentStep - 1
     ELSE UNCHANGED currentStep
  /\ lastEvent' = Event("handleBack", "")
  /\ UNCHANGED <<props, answers, otherInputs, forwarded>>

\* ---- QuestionModal: handleCancel ------------------------------------------
\* a handleCancel wired to the wrong prop
handleCancelAsSubmit ==
  /\ Mounted
  /\ forwarded' = onSubmit(props.toolId, FinalAnswers)
  /\ lastEvent' = Event("handleCancel", "")
  /\ UNCHANGED <<props, currentStep, answers, otherInputs>>

handleCancel ==
  /\ Mounted
  /\ forwarded' = onCancel(props.toolId)
  /\ lastEvent' = Event("handleCancel", "")
  /\ UNCHANGED <<props, currentStep, answers, otherInputs>>

\* ---- QuestionModal: specification -----------------------------------------
\* <QuestionModal toolId={id} questions={Questions(b)} ... /> as first rendered
Mount(id, b) ==
  /\ props = [toolId |-> id, questions |-> b]
  /\ currentStep = 0
  /\ answers = [i \in 1..Len(Questions(b)) |-> <<>>]
  /\ otherInputs = [i \in 1..Len(Questions(b)) |-> <<>>]
  /\ forwarded = NothingForwarded
  /\ lastEvent = NoEvent

\* option buttons of the question on screen
OptionLabels ==
  IF Mounted
  THEN {currentQuestion.options[i] : i \in 1..Len(currentQuestion.options)}
  ELSE {}

MountedInit == \E id \in Calls, b \in Batches : Mount(id, b)

\* a mounted modal on its own, every handler callable
WizardInit == CoordInit /\ MountedInit

WizardNext ==
  \/ \E optionLabel \in OptionLabels :
       handleOptionSelect(optionLabel) /\ UNCHANGED coordVars
  \/ handleOtherSelect /\ UNCHANGED coordVars
  \/ \E value \in Texts : handleOtherInputChange(value) /\ UNCHANGED coordVars
  \/ handleNext /\ UNCHANGED coordVars
  \/ handleBack /\ UNCHANGED coordVars
  \/ handleCancel /\ UNCHANGED coordVars

WizardSpec == WizardInit /\ [][WizardNext]_vars

ModalTypeOK ==
  /\ props.questions \in Batches
  /\ currentStep \in 0..(totalSteps - 1)
  /\ forwarded.kind \in {"none", "submit", "cancel"}
  /\ \A i \in 1..totalSteps : otherInputs[i] \in Texts
  /\ lastEvent.handler \in {"none", "handleOptionSelect", "handleOtherSelect",
                            "handleOtherInputChange", "handleNext",
                            "handleBack", "handleCancel"}

\* ---- QuestionModal: the handlers as its buttons allow them -----------------
\* a Next / Submit button that is never disabled
NextEnabledAlways == TRUE

\* the Next / Submit button: disabled={!canProceed()}
NextEnabled == canProceed

\* the Back button: rendered when totalSteps > 1, disabled={isFirstStep}
BackEnabled == totalSteps > 1 /\ ~isFirstStep

ButtonBatches == {"batchA", "batchD"}

ButtonInit == CoordInit /\ \E id \in Calls, b \in ButtonBatches : Mount(id, b)

ButtonNext ==
  \/ \E optionLabel \in OptionLabels :
       handleOptionSelect(optionLabel) /\ UNCHANGED coordVars
  \/ handleOtherSelect /\ UNCHANGED coordVars
  \/ \E value \in Texts : handleOtherInputChange(value) /\ UNCHANGED coordVars
  \/ NextEnabled /\ handleNext /\ UNCHANGED coordVars
  \/ BackEnabled /\ handleBack /\ UNCHANGED coordVars
  \/ handleCancel /\ UNCHANGED coordVars

ButtonSpec == ButtonInit /\ [][ButtonNext]_vars

\* a mounted modal whose batch may use one header for two questions
SameHeaderBatches == {"batchA", "batchC"}

SameHeaderInit ==
  CoordInit /\ \E id \in Calls, b \in SameHeaderBatches : Mount(id, b)

SameHeaderSpec == SameHeaderInit /\ [][WizardNext]_vars

\* ---- specification -------------------------------------------------------
\* `ask_${Date.now()}_${Math.random()...}`: a tool id no earlier call was given
FreshId(c) == c

\* the server module alone: no modal is mounted
Init == CoordInit /\ ModalInit

Next ==
  \/ \E s \in Sessions : setQuestionCallback(s) /\ UNCHANGED modalVars
  \/ \E id \in ToolIds, a \in AnswerSets :
       answerQuestion(id, a) /\ UNCHANGED modalVars
  \/ \E id \in ToolIds : cancelQuestion(id) /\ UNCHANGED modalVars
  \/ \E c \in Calls, s \in Sessions, hb \in HookBehaviours :
       \E a \in HookAnswers(hb) :
         /\ AskUserQuestion(c, FreshId(c), s, BatchOf(s), hb, a)
         /\ UNCHANGED modalVars
  \/ \E c \in Calls : TimerFire(c) /\ UNCHANGED modalVars
  \/ \E c \in Calls : Resume(c) /\ UNCHANGED modalVars

Spec == Init /\ [][Next]_vars

\* the same operations with at most MaxLiveCalls calls of the tool
LiveNext ==
  \/ \E s \in Sessions : setQuestionCallback(s) /\ UNCHANGED modalVars
  \/ \E id \in ToolIds, a \in AnswerSets :
       answerQuestion(id, a) /\ UNCHANGED modalVars
  \/ \E id \in ToolIds : cancelQuestion(id) /\ UNCHANGED modalVars
  \/ \E c \in 1..MaxLiveCalls, s \in Sessions, hb \in HookBehaviours :
       \E a \in HookAnswers(hb) :
         /\ c \in Calls
         /\ AskUserQuestion(c, FreshId(c), s, BatchOf(s), hb, a)
         /\ UNCHANGED modalVars
  \/ \E c \in Calls : TimerFire(c) /\ UNCHANGED modalVars
  \/ \E c \in Calls : Resume(c) /\ UNCHANGED modalVars

\* the event loop eventually runs an expired timer's callback and a settled
\* promise's continuation
LiveSpec ==
  /\ Init
  /\ [][LiveNext]_vars
  /\ \A c \in Calls : WF_vars(TimerFire(c) /\ UNCHANGED modalVars)
  /\ \A c \in Calls : WF_vars(Resume(c) /\ UNCHANGED modalVars)

TypeOK ==
  /\ globalQuestionCallback \in Sessions \cup {NoCallback}
  /\ pendingQuestions \in [ToolIds -> Calls \cup {Absent}]
  /\ timers \subseteq Calls
  /\ pc \in [Calls -> {"idle", "awaiting", "done"}]

\* ---- the server module when minted ids may coincide -----------------------
\* Date.now() and Math.random() give no guarantee of a new value: a call may
\* mint the tool id of an earlier call
MintedIds == Calls

CollideNext ==
  \/ \E s \in Sessions : setQuestionCallback(s) /\ UNCHANGED modalVars
  \/ \E id \in ToolIds, a \in AnswerSets :
       answerQuestion(id, a) /\ UNCHANGED modalVars
  \/ \E id \in ToolIds : cancelQuestion(id) /\ UNCHANGED modalVars
  \/ \E c \in Calls, toolId \in MintedIds, s \in Sessions :
       /\ AskUserQuestion(c, toolId, s, BatchOf(s), "send", << <<"Lang", "A">> >>)
       /\ UNCHANGED modalVars
  \/ \E c \in Calls : TimerFire(c) /\ UNCHANGED modalVars
  \/ \E c \in Calls : Resume(c) /\ UNCHANGED modalVars

CollideSpec == Init /\ [][CollideNext]_vars

\* ---- the modal wired to the server ----------------------------------------
\* The client that receives the notification renders the modal for it, and
\* passes what the modal hands to onSubmit / onCancel on to answerQuestion /
\* cancelQuestion for the modal's toolId.
\* a modal serves the one call whose toolId it was given
LinkCall == 1

ShowModal(id, b) ==
  /\ props' = [toolId |-> id, questions |-> b]
  /\ currentStep' = 0
  /\ answers' = [i \in 1..Len(Questions(b)) |-> <<>>]
  /\ otherInputs' = [i \in 1..Len(Questions(b)) |-> <<>>]
  /\ forwarded' = NothingForwarded
  /\ lastEvent' = NoEvent

LinkAsk(c, s) ==
  /\ c \in Calls
  /\ AskUserQuestion(c, FreshId(c), s, BatchOf(s), "send", << <<"Lang", "A">> >>)
  /\ IF HasCallback(globalQuestionCallback)
     THEN ShowModal(FreshId(c), BatchOf(s))
     ELSE UNCHANGED modalVars

\* the modal is taken down once its outcome has been passed on
CloseModal ==
  /\ props' = NoModal
  /\ UNCHANGED <<currentStep, answers, otherInputs, forwarded, lastEvent>>

DeliverSubmit ==
  /\ props # NoModal
  /\ forwarded.kind = "submit"
  /\ answerQuestion(forwarded.toolId, forwarded.answers)
  /\ CloseModal

DeliverCancel ==
  /\ props # NoModal
  /\ forwarded.kind = "cancel"
  /\ cancelQuestion(forwarded.toolId)
  /\ CloseModal

LinkNext ==
  \/ \E s \in Sessions : setQuestionCallback(s) /\ UNCHANGED modalVars
  \/ \E s \in Sessions : LinkAsk(LinkCall, s)
  \/ WizardNext
  \/ DeliverSubmit
  \/ DeliverCancel
  \/ \E c \in Calls : TimerFire(c) /\ UNCHANGED modalVars
  \/ \E c \in Calls : Resume(c) /\ UNCHANGED modalVars

LinkSpec == Init /\ [][LinkNext]_vars

\* ---- helpers for the properties -----------------------------------------
Started(c) == pc[c] # "idle"
IdOf(c) == args[c].toolId
\* calls that were given tool id `id`
OwnerCalls(id) == {c \in Calls : Started(c) /\ IdOf(c) = id}
NotificationsFor(id) ==
  {i \in 1..Len(notifications) : notifications[i].toolId = id}
SecondAnswers == << <<"Lang", "B">>, <<"Tools", "X, Y">> >>

\* ---- C1 ------------------------------------------------------------------
\* C1: for every tool id at most one of answer, cancel and timeout ever has an
\* effect on the table or on a suspended call or returns true; a call whose
\* race is settled was settled by exactly that one operation, of the matching
\* kind, and a call whose race is pending has seen none.
C1_AtMostOnceSettlement ==
  /\ \A id \in ToolIds : Len(settledBy[id]) <= 1
  /\ \A c \in Calls :
       Started(c) =>
         LET log == settledBy[IdOf(c)]
         IN CASE race[c].state = "pending" -> log = <<>>
              [] race[c].state = "resolved" -> log = <<"answer">>
              [] race[c] = Rejected(CancelledMsg) -> log = <<"cancel">>
              [] OTHER -> log = <<"timeout">>

\* a call settled by an answer whose timer has since fired, after which a
\* further answer or cancel returned false
C1_Witness ==
  /\ pc[1] = "done" /\ race[1].state = "resolved" /\ 1 \notin timers
  /\ timersScheduled[1] = 1
  /\ pc[2] = "idle"
  /\ ret = "false"

\* ---- C2 ------------------------------------------------------------------
\* C2: a call of the tool that has returned, by whichever path, has no entry
\* for its tool id in the pending table, in every later state.
C2_NoLeak ==
  \A c \in Calls : pc[c] = "done" => pendingQuestions[IdOf(c)] = Absent

\* one call returned after an answer, another after its timeout
C2_Witness ==
  \E c, d \in Calls :
    /\ pc[c] = "done" /\ result[c].kind = "ok"
    /\ pc[d] = "done" /\ result[d] = ErrorResult(TimeoutMsg)

\* ---- C3 ------------------------------------------------------------------
\* C3: a call settled by answer or cancel has no armed timer, and no call
\* that has returned has one.
C3_TimerDisarmed ==
  \A c \in Calls :
    /\ (Started(c) /\ (race[c].state = "resolved" \/ race[c] = Rejected(CancelledMsg)))
         => c \notin timers
    /\ pc[c] = "done" => c \notin timers

\* ---- C4 ------------------------------------------------------------------
\* C4: answerQuestion(id, a) returns true exactly when id had an entry, and
\* then the owning call is suspended and its race is resolved with exactly a,
\* which its continuation turns into the success result of a; cancelQuestion
\* likewise with the cancellation error; a call that returns false leaves the
\* table, every race and every result as they were.
\* what a call that finds no entry must do: return false and change nothing
C4_Quiet == ret' = "false" /\ UNCHANGED <<pendingQuestions, race, result, pc>>

\* only a step that leaves every position and timer alone can be a call of
\* answerQuestion or cancelQuestion, and only one that moves a position can
\* be a continuation
C4_Step ==
  /\ (pc' = pc /\ timers' = timers) =>
       \A id \in ToolIds :
         LET c == pendingQuestions[id]
         IN IF c = Absent
            THEN \/ C4_Quiet
                 \/ /\ \A a \in AnswerSets : ~answerQuestion(id, a)
                    /\ ~cancelQuestion(id)
            ELSE /\ \A a \in AnswerSets :
                      answerQuestion(id, a) =>
                        /\ ret' = "true"
                        /\ pc[c] = "awaiting" /\ race[c] = Pending
                        /\ race'[c] = Resolved(a)
                        /\ pendingQuestions'[id] = Absent
                 /\ cancelQuestion(id) =>
                      /\ ret' = "true"
                      /\ pc[c] = "awaiting" /\ race[c] = Pending
                      /\ race'[c] = Rejected(CancelledMsg)
                      /\ pendingQuestions'[id] = Absent
  /\ pc' # pc =>
       \A c \in Calls :
         Resume(c) =>
           /\ race[c].state = "resolved" => result'[c] = SuccessResult(race[c].answers)
           /\ race[c] = Rejected(CancelledMsg) => result'[c] = ErrorResult(CancelledMsg)

C4_ReturnValues == [][C4_Step]_vars

\* one call returned the second answer set, another was cancelled by the
\* call that has just returned true
C4_Witness ==
  \E c, d \in Calls :
    /\ pc[c] = "done" /\ result[c] = SuccessResult(SecondAnswers)
    /\ race[d] = Rejected(CancelledMsg) /\ pc[d] = "awaiting"
    /\ ret = "true"

\* ---- C5 ------------------------------------------------------------------
\* C5: once a call's timer has fired its race is settled, with the timeout
\* error unless an answer or a cancel settled it first; a call rejected by
\* its timer returns the timeout error; and every suspended call eventually
\* returns a result.
TimerFired(c) == Started(c) /\ timersScheduled[c] > 0 /\ c \notin timers

C5_Timeout ==
  /\ [](\A c \in Calls :
          TimerFired(c) =>
            \/ race[c] = Rejected(TimeoutMsg)
            \/ settledBy[IdOf(c)] \in {<<"answer">>, <<"cancel">>})
  /\ \A c \in Calls :
       (race[c] = Rejected(TimeoutMsg)) ~> (result[c] = ErrorResult(TimeoutMsg))
  /\ \A c \in Calls :
       (pc[c] = "awaiting") ~> (pc[c] = "done" /\ result[c] # NoResult)

C5_Witness ==
  \E c \in Calls :
    /\ pc[c] = "done" /\ result[c] = ErrorResult(TimeoutMsg)
    /\ settledBy[IdOf(c)] = <<"timeout">>

\* ---- C6 ------------------------------------------------------------------
\* C6: a call of the tool made while no callback is set returns in the same
\* step with the configuration error, and that step adds no table entry,
\* arms no timer, settles nothing and notifies nobody.
C6_Step ==
  \A c \in Calls :
    (pc[c] = "idle" /\ pc'[c] # "idle" /\ globalQuestionCallback = NoCallback) =>
      /\ pc'[c] = "done"
      /\ result'[c] = NoCallbackResult
      /\ result'[c].isError
      /\ UNCHANGED <<pendingQuestions, timers, timersScheduled, race, notifications>>
      /\ pendingQuestions'[IdOf(c)'] = Absent

C6_ChannelUnavailable == [][C6_Step]_vars

C6_Witness ==
  \E c \in Calls :
    /\ pc[c] = "done" /\ result[c] = NoCallbackResult
    /\ timersScheduled[c] = 0 /\ NotificationsFor(IdOf(c)) = {}

\* ---- C7 ------------------------------------------------------------------
\* C7: when the callback is invoked the tool id is already in the table, and
\* an answerQuestion / cancelQuestion call made by the callback returns true.
C7_Step ==
  \A c \in Calls, s \in Sessions, hb \in HookBehaviours, a \in AnswerSets :
    (AskUserQuestion(c, FreshId(c), s, BatchOf(s), hb, a)
       /\ globalQuestionCallback # NoCallback) =>
      /\ notifications'[Len(notifications')].registered
      /\ hb # "send" => ret' = "true"

C7_RegisterBeforeNotify == [][C7_Step]_vars

\* ---- C8 ------------------------------------------------------------------
\* C8: a step that starts a call while a callback is set appends exactly one
\* notification, carrying the call's tool id (which no earlier notification
\* carried), its questions and its session id, and schedules exactly one
\* timer for the call; every other step leaves the notification log and the
\* timer counts unchanged.
C8_Step ==
  /\ \A c \in Calls :
       (pc[c] = "idle" /\ pc'[c] # "idle" /\ globalQuestionCallback # NoCallback) =>
         /\ Len(notifications') = Len(notifications) + 1
         /\ SubSeq(notifications', 1, Len(notifications)) = notifications
         /\ LET n == notifications'[Len(notifications')]
            IN /\ n.toolId = args'[c].toolId
               /\ n.questions = args'[c].questions
               /\ n.sessionId = args'[c].sessionId
               /\ NotificationsFor(n.toolId) = {}
         /\ timersScheduled' = [timersScheduled EXCEPT ![c] = 1]
  /\ (\A c \in Calls : ~(pc[c] = "idle" /\ pc'[c] # "idle")) =>
       UNCHANGED <<notifications, timersScheduled>>

C8_OneNotification == [][C8_Step]_vars

\* two notified calls, one since answered and one timed out, still two
\* notifications
C8_Witness ==
  /\ Len(notifications) = 2
  /\ \E c, d \in Calls :
       /\ pc[c] = "done" /\ race[c].state = "resolved"
       /\ pc[d] = "done" /\ race[d] = Rejected(TimeoutMsg)

\* ---- C9 ------------------------------------------------------------------
\* C9: an answer, a cancel or a timer firing for one tool id, and the return
\* of one call, leave the table entry of every other tool id and the race,
\* the result and the position of every other call unchanged.
OthersUnchanged(id) ==
  /\ \A j \in ToolIds \ {id} : pendingQuestions'[j] = pendingQuestions[j]
  /\ \A d \in Calls \ OwnerCalls(id) :
       race'[d] = race[d] /\ result'[d] = result[d] /\ pc'[d] = pc[d]

\* a step that changes the table, a race, a result or a position: a call of
\* answerQuestion or cancelQuestion if it leaves positions and timers alone,
\* a timer callback if it removes a timer, else a step of the handler
C9_Changing ==
  /\ (pc' = pc /\ timers' = timers) =>
       /\ \A id \in ToolIds, a \in AnswerSets :
            answerQuestion(id, a) => OthersUnchanged(id)
       /\ \A id \in ToolIds : cancelQuestion(id) => OthersUnchanged(id)
  /\ timers' # timers =>
       \A c \in Calls : TimerFire(c) => OthersUnchanged(IdOf(c))
  /\ pc' # pc =>
       /\ \A c \in Calls : Resume(c) => OthersUnchanged(IdOf(c))
       /\ \A c \in Calls :
            (pc[c] = "idle" /\ pc'[c] # "idle") =>
              /\ \A j \in ToolIds \ {IdOf(c)'} :
                   pendingQuestions'[j] = pendingQuestions[j]
              /\ \A d \in Calls \ {c} :
                   race'[d] = race[d] /\ result'[d] = result[d] /\ pc'[d] = pc[d]

\* a step that changes none of them leaves every request as it was
C9_Step ==
  UNCHANGED <<pendingQuestions, race, result, pc>> \/ C9_Changing

C9_Independence == [][C9_Step]_vars

\* one call has failed and returned while another is still pending in the
\* table
C9_Witness ==
  \E c, d \in Calls :
    /\ c # d
    /\ pc[c] = "done" /\ race[c].state = "rejected"
    /\ pc[d] = "awaiting" /\ race[d] = Pending /\ pendingQuestions[IdOf(d)] = d

\* ---- C10 -----------------------------------------------------------------
\* C10: once both sessions have set their callback, a question asked by a
\* session is handed to the callback that session set.
C10_Step ==
  \A c \in Calls :
    (pc[c] = "idle" /\ pc'[c] = "awaiting" /\ callbackSetBy = Sessions) =>
      lastHook' = notifications'[Len(notifications')].sessionId

C10_NoMisdelivery == [][C10_Step]_vars

\* ---- helpers for the modal's properties ----------------------------------
\* the labels an array holds, as a set
Elems(arr) == {arr[i] : i \in 1..Len(arr)}

\* a text with at least one character that is not white space
NonBlank(t) == \E i \in 1..Len(t) : t[i] \notin Whitespace

\* this step is a run of the named handler
Ran(handler) ==
  /\ lastEvent'.handler = handler
  /\ Mounted
  /\ props' = props
  /\ coordVars' = coordVars

\* the handler that ran last ran on a multi-select / single-select question
EventOnMulti == questions[lastEvent.step + 1].multiSelect

\* ---- C11 -----------------------------------------------------------------
\* C11: whenever a modal is on screen, canProceed() is true exactly when the
\* current step's selection is not empty and, if it holds the "Other"
\* sentinel, the current step's text has a character that is not white
\* space; it is false exactly when the selection is empty or holds the
\* sentinel with an empty or blank text.  Both sides read the current step
\* only, and the equivalence is checked with every content of the other steps.
C11_ValidationGating ==
  props # NoModal =>
    /\ canProceed <=>
         /\ Elems(StepAnswers(currentStep)) # {}
         /\ Other \in Elems(StepAnswers(currentStep)) =>
              NonBlank(StepOther(currentStep))
    /\ ~canProceed <=>
         \/ Elems(StepAnswers(currentStep)) = {}
         \/ /\ Other \in Elems(StepAnswers(currentStep))
            /\ \A i \in 1..Len(StepOther(currentStep)) :
                 StepOther(currentStep)[i] \in Whitespace

\* "Other" is selected with a blank, non-empty text and the step is held back
C11_Witness ==
  /\ props # NoModal
  /\ isOtherSelected
  /\ StepOther(currentStep) = <<" ">>
  /\ ~canProceed
  /\ \E i \in 1..totalSteps : i # currentStep + 1 /\ answers[i] # <<>>

\* ---- C12 -----------------------------------------------------------------
\* C12: handleNext invoked while canProceed() is false is refused: the step
\* index, every selection and every text stay as they were and nothing is
\* passed to onSubmit.
C12_Step ==
  (Ran("handleNext") /\ ~canProceed) =>
     /\ currentStep' = currentStep
     /\ answers' = answers
     /\ otherInputs' = otherInputs
     /\ forwarded' = forwarded

C12_DefensiveRejection == [][C12_Step]_vars

\* ---- C13 -----------------------------------------------------------------
\* C13 as stated: on a multi-select step every handleOptionSelect(label)
\* leaves the selection without the sentinel, and every handleOtherSelect()
\* toggles the sentinel and keeps the selected regular options.
C13_OtherExclusivity ==
  /\ (lastEvent.handler = "handleOptionSelect" /\ EventOnMulti) =>
        Other \notin Elems(StepAnswers(lastEvent.step))
  /\ (lastEvent.handler = "handleOtherSelect" /\ EventOnMulti) =>
        /\ Elems(StepAnswers(lastEvent.step)) \ {Other} =
             Elems(lastEvent.before) \ {Other}
        /\ Other \in Elems(StepAnswers(lastEvent.step)) <=>
             Other \notin Elems(lastEvent.before)

\* C13 (amended): on a multi-select step a handleOptionSelect(label) that
\* selects a label not yet selected leaves the selection without the
\* sentinel, one that deselects a selected label removes that label only
\* (the sentinel stays if it was there), and every handleOtherSelect()
\* toggles the sentinel and keeps the selected regular options.
C13_OtherExclusivityOnAdd ==
  /\ (lastEvent.handler = "handleOptionSelect" /\ EventOnMulti) =>
        IF lastEvent.arg \notin Elems(lastEvent.before)
        THEN Elems(StepAnswers(lastEvent.step)) =
               (Elems(lastEvent.before) \ {Other}) \cup {lastEvent.arg}
        ELSE Elems(StepAnswers(lastEvent.step)) =
               Elems(lastEvent.before) \ {lastEvent.arg}
  /\ (lastEvent.handler = "handleOtherSelect" /\ EventOnMulti) =>
        /\ Elems(StepAnswers(lastEvent.step)) \ {Other} =
             Elems(lastEvent.before) \ {Other}
        /\ Other \in Elems(StepAnswers(lastEvent.step)) <=>
             Other \notin Elems(lastEvent.before)

\* a regular option has just been added to a selection that held a regular
\* option and the sentinel
C13_Witness ==
  /\ lastEvent.handler = "handleOptionSelect"
  /\ EventOnMulti
  /\ lastEvent.before = <<"X", Other>>
  /\ lastEvent.arg = "Y"
  /\ StepAnswers(lastEvent.step) = <<"X", "Y">>

\* ---- C14 -----------------------------------------------------------------
\* C14: on a single-select step handleOptionSelect(label) leaves the
\* selection [label] and the step's text empty, handleOtherSelect() leaves
\* the selection ['__other__']; a single-select step never holds more than
\* one entry, so never a regular label together with the sentinel.
C14_SingleSelect ==
  /\ (lastEvent.handler = "handleOptionSelect" /\ ~EventOnMulti) =>
        /\ StepAnswers(lastEvent.step) = <<lastEvent.arg>>
        /\ StepOther(lastEvent.step) = <<>>
  /\ (lastEvent.handler = "handleOtherSelect" /\ ~EventOnMulti) =>
        StepAnswers(lastEvent.step) = <<Other>>
  /\ \A i \in 1..totalSteps :
        ~questions[i].multiSelect => Len(answers[i]) <= 1

\* a regular option has just replaced "Other" whose text had been typed
C14_Witness ==
  /\ lastEvent.handler = "handleOptionSelect"
  /\ ~EventOnMulti
  /\ lastEvent.before = <<Other>>
  /\ lastEvent.text = <<"Z">>
  /\ StepAnswers(lastEvent.step) = <<"A">>

\* ---- C15 -----------------------------------------------------------------
\* the joined value built entry by entry: the sentinel stands for the text,
\* an empty piece is skipped, pieces are separated by ", "
RECURSIVE C15_Value(_, _, _)
C15_Value(sel, text, acc) ==
  IF sel = <<>> THEN acc
  ELSE LET piece == IF sel[1] = Other THEN TextStr(text) ELSE sel[1]
       IN  C15_Value(Tail(sel), text,
                     IF piece = "" THEN acc
                     ELSE IF acc = "" THEN piece
                     ELSE acc \o ", " \o piece)

\* C15: the object passed to onSubmit has one entry per question, in the
\* batch's order, keyed by the question's header and holding the joined
\* value of that step; "Lang" with A and "Tools" with X, Y and other text
\* "Z" give {"Lang": "A", "Tools": "X, Y, Z"}.
C15_Aggregation ==
  forwarded.kind = "submit" =>
    /\ Len(forwarded.answers) = totalSteps
    /\ \A i \in 1..totalSteps :
         forwarded.answers[i] =
           <<questions[i].header, C15_Value(answers[i], otherInputs[i], "")>>
    /\ (/\ props.questions = "batchA"
        /\ answers = << <<"A">>, <<"X", "Y", Other>> >>
        /\ otherInputs[2] = <<"Z">>) =>
         forwarded.answers = << <<"Lang", "A">>, <<"Tools", "X, Y, Z">> >>

\* the example of the claim has been submitted
C15_Witness ==
  /\ forwarded.kind = "submit"
  /\ props.questions = "batchA"
  /\ answers = << <<"A">>, <<"X", "Y", Other>> >>
  /\ otherInputs[2] = <<"Z">>

\* ---- C16 -----------------------------------------------------------------
\* the regular labels of a selection, in array order
Regulars(arr) == Without(arr, Other)

\* C16: in every step's selection the sentinel, when present, is the last
\* entry; selecting a regular option puts it after the regular options
\* already selected, deselecting one and toggling "Other" keep the order of
\* the rest; and the joined value is the regular labels in that order
\* followed by the text when "Other" is selected.
C16_Ordering ==
  /\ \A i \in 1..totalSteps :
       /\ \A k \in 1..Len(answers[i]) :
            answers[i][k] = Other => k = Len(answers[i])
       /\ AnswerValue(answers[i], otherInputs[i]) =
            IF Other \in Elems(answers[i]) /\ otherInputs[i] # <<>>
            THEN IF Regulars(answers[i]) = <<>>
                 THEN TextStr(otherInputs[i])
                 ELSE JoinComma(Regulars(answers[i])) \o ", "
                        \o TextStr(otherInputs[i])
            ELSE JoinComma(Regulars(answers[i]))
  /\ (lastEvent.handler = "handleOptionSelect" /\ EventOnMulti) =>
       Regulars(StepAnswers(lastEvent.step)) =
         IF lastEvent.arg \in Elems(lastEvent.before)
         THEN SelectSeq(Regulars(lastEvent.before),
                        LAMBDA a : a # lastEvent.arg)
         ELSE Regulars(lastEvent.before) \o <<lastEvent.arg>>
  /\ lastEvent.handler = "handleOtherSelect" /\ EventOnMulti =>
       Regulars(StepAnswers(lastEvent.step)) = Regulars(lastEvent.before)

\* Y was selected before X and "Other" after both
C16_Witness ==
  /\ props.questions = "batchB"
  /\ answers[1] = <<"Y", "X", Other>>
  /\ otherInputs[1] = <<"Z">>
  /\ AnswerValue(answers[1], otherInputs[1]) = "Y, X, Z"

\* ---- C17 -----------------------------------------------------------------
\* C17: handleBack on step 0 changes nothing; on a later step it moves one
\* step back whether or not canProceed() holds; it leaves every step's
\* selection and text as they were, and so does the handleNext that returns.
C17_Step ==
  /\ Ran("handleBack") =>
       /\ currentStep' = IF currentStep = 0 THEN 0 ELSE currentStep - 1
       /\ answers' = answers
       /\ otherInputs' = otherInputs
       /\ forwarded' = forwarded
  /\ Ran("handleNext") =>
       /\ answers' = answers
       /\ otherInputs' = otherInputs

C17_Back == [][C17_Step]_vars

\* handleBack has just left a step on which canProceed() was false and that
\* held a text
C17_Witness ==
  /\ lastEvent.handler = "handleBack"
  /\ lastEvent.step = 1
  /\ currentStep = 0
  /\ ~CanProceed(lastEvent.before, lastEvent.text)
  /\ lastEvent.text # <<>>
  /\ otherInputs[2] = lastEvent.text

\* ---- C18 -----------------------------------------------------------------
C18_Step ==
  /\ (/\ Ran("handleNext")
      /\ currentStep < totalSteps - 1
      /\ canProceed) =>
        /\ currentStep' = currentStep + 1
        /\ forwarded' = forwarded
  /\ (forwarded'.kind = "submit" /\ forwarded.kind # "submit") =>
        /\ Ran("handleNext")
        /\ currentStep = totalSteps - 1

C18_State ==
  props # NoModal =>
    /\ lastEvent = NoEvent => currentStep = 0
    /\ currentStep \in 0..(totalSteps - 1)
    /\ forwarded.kind = "submit" =>
         lastEvent.handler = "handleNext" /\ lastEvent.step = totalSteps - 1

\* C18: the modal starts on step 0; handleNext on a step before the last with
\* canProceed() true moves one step on and calls neither onSubmit nor
\* onCancel; onSubmit is called only by handleNext on the last step; the
\* step index always stays within 0..N-1.
C18_StepProgression == []C18_State /\ [][C18_Step]_vars

\* handleNext has moved a two-step modal from step 0, where canProceed() was
\* true, to step 1, and nothing has been passed on
C18_Witness ==
  /\ lastEvent.handler = "handleNext"
  /\ lastEvent.step = 0
  /\ CanProceed(lastEvent.before, lastEvent.text)
  /\ currentStep = 1
  /\ forwarded = NothingForwarded

\* ---- C19 -----------------------------------------------------------------
C19_State ==
  /\ Mounted => ENABLED (handleCancel /\ UNCHANGED coordVars)
  /\ lastEvent.handler = "handleCancel" =>
       /\ forwarded = onCancel(args[LinkCall].toolId)
       /\ pc[LinkCall] # "idle"

C19_Step ==
  /\ Ran("handleCancel") =>
       /\ forwarded'.kind = "cancel"
       /\ forwarded'.toolId = props.toolId
  /\ (props # NoModal /\ props' = NoModal /\ forwarded.kind = "cancel") =>
       LET c == pendingQuestions[forwarded.toolId]
       IN  c # Absent =>
             /\ c = LinkCall
             /\ race'[c] = Rejected(CancelledMsg)
             /\ pendingQuestions'[forwarded.toolId] = Absent
             /\ ret' = RetOf(TRUE)
  /\ \A c \in Calls :
       (pc[c] = "awaiting" /\ pc'[c] = "done"
          /\ race[c] = Rejected(CancelledMsg)) =>
         result'[c] = [kind |-> "error", isError |-> TRUE,
                       text |-> "Error: Question cancelled by user"]

\* C19: handleCancel can run on every step, with canProceed() true or false;
\* it calls onCancel with the modal's own toolId and never onSubmit; when
\* that cancel reaches cancelQuestion while the call is still pending, the
\* call's promise is rejected and the handler returns the "cancelled" error.
C19_Cancel == []C19_State /\ [][C19_Step]_vars

\* cancelled on the second step while canProceed() was false, and the call
\* has returned the "cancelled" error
C19_Witness ==
  /\ lastEvent.handler = "handleCancel"
  /\ lastEvent.step = 1
  /\ ~CanProceed(lastEvent.before, lastEvent.text)
  /\ pc[LinkCall] = "done"
  /\ result[LinkCall].isError
  /\ result[LinkCall].text = "Error: Question cancelled by user"

\* ---- C20 -----------------------------------------------------------------
\* "header: value" lines, one per entry, each but the last ended by a newline
RECURSIVE C20_Lines(_, _)
C20_Lines(a, acc) ==
  IF a = <<>> THEN acc
  ELSE C20_Lines(Tail(a),
         IF acc = "" THEN a[1][1] \o ": " \o a[1][2]
         ELSE acc \o "\n" \o a[1][1] \o ": " \o a[1][2])

\* what settled the call: the first operation that had an effect on its id
C20_Cause(c) ==
  IF race[c].state = "pending" THEN "none" ELSE settledBy[IdOf(c)][1]

C21_Step ==
  \A c \in Calls :
    (/\ pc[c] = "idle"
     /\ pc'[c] # "idle"
     /\ pendingQuestions[args'[c].toolId] # Absent) =>
       /\ pendingQuestions'[args'[c].toolId] = pendingQuestions[args'[c].toolId]
       /\ pc'[c] = "done"
       /\ result'[c].kind = "error"

C21_IdentifierCollision == [][C21_Step]_vars

\* ---- C22 -----------------------------------------------------------------
Headers == {questions[i].header : i \in 1..totalSteps}

\* the last question of the batch with header h
LastWith(h) ==
  CHOOSE i \in 1..totalSteps :
    /\ questions[i].header = h
    /\ \A j \in (i + 1)..totalSteps : questions[j].header # h

\* C22: the object passed to onSubmit has exactly one entry per distinct
\* header, and when two questions share a header the entry holds the joined
\* value of the later question; the earlier question's answer is not in it.
C22_HeaderCollision ==
  forwarded.kind = "submit" =>
    /\ Len(forwarded.answers) = Cardinality(Headers)
    /\ \A h \in Headers :
         \E k \in 1..Len(forwarded.answers) :
           /\ forwarded.answers[k] =
                <<h, C15_Value(answers[LastWith(h)], otherInputs[LastWith(h)], "")>>
           /\ \A k2 \in 1..Len(forwarded.answers) :
                k2 # k => forwarded.answers[k2][1] # h

\* both questions headed "Lang" were answered and only X was passed on
C22_Witness ==
  /\ forwarded.kind = "submit"
  /\ props.questions = "batchC"
  /\ answers = << <<"A">>, <<"X">> >>
  /\ forwarded.answers = << <<"Lang", "X">> >>

\* ---- C23 -----------------------------------------------------------------
\* a call waiting at its await whose promise nothing has settled yet
Suspended(c) == pc[c] = "awaiting" /\ race[c].state = "pending"

\* C23: with distinct tool ids, the keys of pendingQuestions are exactly the
\* tool ids of the calls that are suspended, and each entry holds the
\* resolve / reject of that call: a call that has been settled, has returned
\* or never invoked the callback has no entry, and a suspended call has one.
C23_TableMatchesSuspended ==
  /\ {id \in ToolIds : pendingQuestions[id] # Absent} =
       {IdOf(c) : c \in {d \in Calls : Suspended(d)}}
  /\ \A c \in Calls : Suspended(c) => pendingQuestions[IdOf(c)] = c

\* one call is suspended with its entry while another, answered, has none
C23_Witness ==
  \E c, d \in Calls :
    /\ Suspended(c)
    /\ pendingQuestions[IdOf(c)] = c
    /\ Started(d)
    /\ race[d].state = "resolved"
    /\ pendingQuestions[IdOf(d)] = Absent
    /\ \E e \in Calls : e \notin timers /\ timersScheduled[e] > 0

\* ---- C24 -----------------------------------------------------------------
\* the validity of step idx: a selection, and a text that is not blank if
\* the selection holds the sentinel
ValidStep(idx) ==
  /\ Elems(StepAnswers(idx)) # {}
  /\ Other \in Elems(StepAnswers(idx)) => NonBlank(StepOther(idx))

\* C24: when handleNext runs only while its button is enabled, every step
\* before the current one is valid, and the object passed to onSubmit is
\* built from a batch whose every step is valid.
C24_EarlierStepsValid ==
  props # NoModal =>
    /\ \A j \in 0..(currentStep - 1) : ValidStep(j)
    /\ forwarded.kind = "submit" =>
         \A j \in 0..(totalSteps - 1) :
           /\ ValidStep(j)
           /\ \E k \in 1..Len(forwarded.answers) :
                /\ forwarded.answers[k][1] = questions[j + 1].header
                /\ forwarded.answers[k][2] # ""

\* the three-step batch has been submitted with Y and "Other" selected on
\* its second step
C24_Witness ==
  /\ props.questions = "batchD"
  /\ currentStep = 2
  /\ answers[2] = <<"Y", Other>>
  /\ otherInputs[1] # <<>>
  /\ lastEvent.handler = "handleNext"
  /\ forwarded.kind = "submit"

\* ---- C25 -----------------------------------------------------------------
\* every step but the one on screen keeps its selection and its text
OtherStepsKept ==
  \A i \in 1..totalSteps :
    i # currentStep + 1 =>
      answers'[i] = answers[i] /\ otherInputs'[i] = otherInputs[i]

C25_Step ==
  /\ (Ran("handleOptionSelect") \/ Ran("handleOtherSelect")) =>
       /\ currentStep' = currentStep
       /\ forwarded' = forwarded
       /\ OtherStepsKept
  /\ Ran("handleOtherInputChange") =>
       /\ currentStep' = currentStep
       /\ forwarded' = forwarded
       /\ answers' = answers
       /\ OtherStepsKept
  /\ (Ran("handleNext") \/ Ran("handleBack")) =>
       /\ answers' = answers
       /\ otherInputs' = otherInputs
  /\ Ran("handleCancel") =>
       /\ currentStep' = currentStep
       /\ answers' = answers
       /\ otherInputs' = otherInputs

\* C25: handleOptionSelect, handleOtherSelect and handleOtherInputChange
\* change the current step's data only and never the step index;
\* handleOtherInputChange never changes a selection; handleNext and
\* handleBack change no selection and no text; no handler changes the data
\* of a step other than the current one.
C25_StepLocal == [][C25_Step]_vars

\* a text has just been typed on the second step while the first step holds
\* a different text and a selection
C25_Witness ==
  /\ lastEvent.handler = "handleOtherInputChange"
  /\ lastEvent.step = 1
  /\ otherInputs[2] = <<"Z">>
  /\ otherInputs[1] = <<" ", "x", " ">>
  /\ answers[1] = <<Other>>
  /\ answers[2] = <<"X">>

\* ---- C26 -----------------------------------------------------------------
\* the characters of " x "
Padded == <<" ", "x", " ">>

\* C26: canProceed() judges the "Other" text after trimming, the value
\* passed to onSubmit carries the text as typed: a submitted step with only
\* "Other" selected and the text " x " has the value " x ", and every
\* submitted step with "Other" selected has a text that is not blank.
C26_TrimPolicy ==
  /\ (props # NoModal /\ isOtherSelected) =>
        (canProceed <=> NonBlank(StepOther(currentStep)))
  /\ forwarded.kind = "submit" =>
       \A i \in 1..totalSteps :
         /\ Other \in Elems(answers[i]) => NonBlank(otherInputs[i])
         /\ (answers[i] = <<Other>> /\ otherInputs[i] = Padded) =>
               forwarded.answers[i] = <<questions[i].header, " x ">>
         /\ (answers[i] = <<"X", Other>> /\ otherInputs[i] = Padded) =>
               forwarded.answers[i] = <<questions[i].header, "X,  x ">>

\* the last step was submitted with only "Other" selected and the text " x "
C26_Witness ==
  /\ forwarded.kind = "submit"
  /\ answers[totalSteps] = <<Other>>
  /\ otherInputs[totalSteps] = Padded
  /\ forwarded.answers[totalSteps][2] = " x "
====
